---- MODULE Spec2Model ----
(***************************************************************************)
(* A model of xshell's command value (src/src/lib.rs): the builder          *)
(* (Cmd::new, arg, args, __extend_arg, stdin), its rendering (Display),     *)
(* the two execution modes (Cmd::read through Cmd::mrun, and Cmd::run),     *)
(* and the ambient environment store they run beside (pushd, pushenv, cwd,  *)
(* read_file under the global shell lock).                                  *)
(*                                                                          *)
(* A token (OsString) is a sequence of one-character strings.  Characters   *)
(* that have no TLA+ escape are written as a bracketed code point.          *)
(***************************************************************************)
EXTENDS Integers, Sequences, FiniteSets

VARIABLES
    args,            \* Cmd.args: Vec<OsString>
    stdin_contents,  \* Cmd.stdin_contents: Option<Vec<u8>>
    program,         \* the program Cmd::new was given
    lastCall,        \* the builder operation called last
    rendered,        \* the texts to_string() returned, in call order
    cwd,             \* the process's current directory
    env,             \* the process's environment: name -> value or Absent
    lock,            \* the global shell lock: its holder, or None
    guards,          \* the live Pushd / Pushenv guards, oldest first
    tpc,             \* each thread's place in its store operation
    tloc,            \* each thread's operation argument, reads and return value
    lifo,            \* no guard was released under a younger guard of its slot
    nAcq,            \* acquire operations started so far
    ambient0,        \* the directory and environment the process started with
    rop,             \* the execution the calling thread performs: "read" or "run"
    rpc,             \* the calling thread's place in it
    segs,            \* mrun: the segments `cmd.split(..)` has yet to yield
    mstdin,          \* mrun: `stdin`, the index of the last child spawned, or 0 (None)
    children,        \* the child processes spawned, in spawn order
    console,         \* what was written to the process's standard output
    result           \* what the execution returned, or that it panicked

cmdVars == <<args, stdin_contents, program, lastCall, rendered>>

ambVars == <<cwd, env, lock, guards, tpc, tloc, lifo, nAcq, ambient0>>

execVars == <<rop, rpc, segs, mstdin, children, console, result>>

vars == <<cmdVars, ambVars, execVars>>

\* What the builder and the rendering leave alone.
notCmd == <<ambVars, execVars>>

\* What the store's operations leave alone.
notAmb == <<cmdVars, execVars>>

None == "None"

\* Option<T>: None is the empty sequence, Some(x) the sequence of x alone.
NoneOpt == <<>>
Some(x) == <<x>>

\* ------------------------------------------------------------ characters

SP == " "
TAB == "\t"
LF == "\n"
CR == "\r"
FF == "\f"
VT == "<0B>"
DQ == "\""
SQ == "'"
BSL == "\\"
NBSP == "<A0>"
BADBYTE == "<FF>"
REPL == "<FFFD>"

\* char::is_ascii_whitespace: U+0020, U+0009, U+000A, U+000C, U+000D.
IsAsciiWhitespace(c) == c \in {SP, TAB, LF, FF, CR}

\* char::is_whitespace (Unicode White_Space), which Display does not use.
IsWhitespace(c) == c \in {SP, TAB, LF, FF, CR, VT, NBSP}

\* char::escape_default.
EscapeChar(c) ==
    CASE c = TAB -> <<BSL, "t">>
      [] c = CR -> <<BSL, "r">>
      [] c = LF -> <<BSL, "n">>
      [] c = SQ -> <<BSL, SQ>>
      [] c = DQ -> <<BSL, DQ>>
      [] c = BSL -> <<BSL, BSL>>
      [] c = FF -> <<BSL, "u", "{", "c", "}">>
      [] c = VT -> <<BSL, "u", "{", "b", "}">>
      [] c = NBSP -> <<BSL, "u", "{", "a", "0", "}">>
      [] c = REPL -> <<BSL, "u", "{", "f", "f", "f", "d", "}">>
      [] OTHER -> <<c>>

RECURSIVE EscapeDefault(_)
\* str::escape_default: every character's escape, in order.
EscapeDefault(s) ==
    IF s = <<>> THEN <<>> ELSE EscapeChar(Head(s)) \o EscapeDefault(Tail(s))

\* OsStr::to_string_lossy: an invalid byte becomes U+FFFD.
ToStringLossy(tok) == [i \in 1..Len(tok) |-> IF tok[i] = BADBYTE THEN REPL ELSE tok[i]]

\* The test of line 256 on the converted argument.
NeedsQuotes(s) == \E i \in 1..Len(s) : IsAsciiWhitespace(s[i])

NeedsQuotesUnicode(s) == \E i \in 1..Len(s) : IsWhitespace(s[i])

\* A slip: the test is is_whitespace, which is not ASCII-only.
FmtArgUnicode(tok) ==
    LET arg == ToStringLossy(tok)
    IN  IF NeedsQuotesUnicode(arg) THEN <<DQ>> \o EscapeDefault(arg) \o <<DQ>> ELSE arg

\* One iteration's second write of Display::fmt, lines 255-260.
FmtArg(tok) ==
    LET arg == ToStringLossy(tok)
    IN  IF NeedsQuotes(arg) THEN <<DQ>> \o EscapeDefault(arg) \o <<DQ>> ELSE arg

RECURSIVE FmtLoop(_, _, _)
\* The loop of Display::fmt: `f` is the text written so far, `space` the
\* separator the next iteration writes first.
FmtLoop(rest, space, f) ==
    IF rest = <<>> THEN f
    ELSE FmtLoop(Tail(rest), <<SP>>, f \o space \o FmtArg(Head(rest)))

\* impl fmt::Display for Cmd, as to_string() returns it.
Display(a) == FmtLoop(a, <<>>, <<>>)

\* --------------------------------------------------------------- builder

MaxBuilt == 3
MaxTokLen == 3
MaxRenders == 2

\* Cmd::new / Cmd::_new: the state a command is constructed in.
New(p) ==
    /\ args = <<p>>
    /\ stdin_contents = NoneOpt
    /\ program = p
    /\ lastCall = "new"
    /\ rendered = <<>>

\* A command as a chain of builder calls leaves it: program and arguments
\* `a`, standard input `b`.
Built(a, b) ==
    /\ args = a
    /\ stdin_contents = b
    /\ program = a[1]
    /\ lastCall = "new"
    /\ rendered = <<>>

\* A slip: the new argument replaces the last one.
PushArgOverLast(list, a) == [list EXCEPT ![Len(list)] = a]

\* Cmd::_arg.
PushArg(list, a) == Append(list, a)

\* Cmd::arg.
Arg(a) ==
    /\ Len(args) < MaxBuilt
    /\ args' = PushArg(args, a)
    /\ lastCall' = "arg"
    /\ UNCHANGED <<stdin_contents, program, rendered, notCmd>>

RECURSIVE ForEachArg(_, _)
\* args.into_iter().for_each(|it| self._arg(it.as_ref())).
ForEachArg(list, items) ==
    IF items = <<>> THEN list
    ELSE ForEachArg(PushArg(list, Head(items)), Tail(items))

\* Cmd::args.
Args(items) ==
    /\ Len(args) + Len(items) <= MaxBuilt
    /\ args' = ForEachArg(args, items)
    /\ lastCall' = "args"
    /\ UNCHANGED <<stdin_contents, program, rendered, notCmd>>

\* Cmd::__extend_arg / ___extend_arg: last_mut().unwrap() panics on an
\* empty list.
ExtendArg(a) ==
    /\ args # <<>> => Len(args[Len(args)]) + Len(a) <= MaxTokLen
    /\ IF args = <<>>
       THEN lastCall' = "panic" /\ UNCHANGED args
       ELSE /\ args' = [args EXCEPT ![Len(args)] = @ \o a]
            /\ lastCall' = "__extend_arg"
    /\ UNCHANGED <<stdin_contents, program, rendered, notCmd>>

\* Cmd::stdin / Cmd::_stdin.
Stdin(bytes) ==
    /\ stdin_contents' = Some(bytes)
    /\ lastCall' = "stdin"
    /\ UNCHANGED <<args, program, rendered, notCmd>>

\* ToString::to_string through Display; the command is only borrowed.
to_string ==
    /\ Len(rendered) < MaxRenders
    /\ rendered' = Append(rendered, Display(args))
    /\ lastCall' = "to_string"
    /\ UNCHANGED <<args, stdin_contents, program, notCmd>>

\* Inputs of the builder.
BuilderTokens == {<<>>, <<"a">>, <<"-", "v">>}

BuilderSplats == {<<>>, <<<<"a">>, <<"-", "v">>>>}

StdinBuffers == {<<>>, <<"x">>}

\* ------------------------------------------------------------- rendering

MaxArgs == 2

Echo == <<"e", "c", "h", "o">>
GutenTag == <<"G", "u", "t", "e", "n", SP, "T", "a", "g">>
Spica == <<"S", "p", "i", "c", "a">>
Boarst == <<"B", "o", "a", "r", "s", "t">>
Georgina == <<"G", "e", "o", "r", "g", "i", "n", "a">>

\* cmd!("echo {greeting} {people...}") of the crate documentation.
GreetingCmd == <<Echo, GutenTag, Spica, Boarst, Georgina>>

\* cmd!("git push {dry_run...}") of the crate documentation.
DryRunCmd == <<<<"g", "i", "t">>, <<"p", "u", "s", "h">>, <<"-", "-", "d", "r", "y", "-", "r", "u", "n">>>>

DisplayTokens ==
    { <<>>, <<"a">>, <<"a", SP, "b">>, <<TAB>>, <<DQ>>, <<"a", LF, DQ, BSL>>,
      <<NBSP>>, <<VT>>, <<SQ, CR>>, <<FF, "a">>, <<BADBYTE>>, <<BADBYTE, SP>> }

SeqsUpTo(S, n) == UNION {[1..k -> S] : k \in 1..n}

DisplayInputs == SeqsUpTo(DisplayTokens, MaxArgs) \cup {GreetingCmd, DryRunCmd}

\* --------------------------------------------- ambient environment store

MaxAcq == 2

Threads == {"t1", "t2"}
Absent == "Absent"
Root == <<>>
Dirs == {Root, <<"src">>}
Files == {<<"src", "lib.rs">>}
EnvNames == {"MY_VAR"}
EnvValues == {"92", "7"}
PushdPaths == {<<"src">>, <<"..">>, <<"nope">>}
ReadPaths == {<<"src", "lib.rs">>, <<"lib.rs">>}

Parent(dir) == IF dir = <<>> THEN dir ELSE SubSeq(dir, 1, Len(dir) - 1)

RECURSIVE Join(_, _)
\* A relative path resolved against a directory.
Join(dir, path) ==
    IF path = <<>> THEN dir
    ELSE Join(IF Head(path) = ".." THEN Parent(dir) ELSE Append(dir, Head(path)),
              Tail(path))

NoRet == [op |-> "none"]

IdleLoc == [arg |-> None, seen |-> None, ret |-> NoRet]

\* A slip: the lock is taken without waiting for its holder.
GslLockNoWait(t) == lock' = t

\* AmbientLock, acquired: the caller waits until no thread holds it.
GslLock(t) == lock = None /\ lock' = t

\* AmbientLock, released at the end of an operation.
GslUnlock(t) == lock' = None

\* An operation of thread t starts: it takes the lock.
Begin(t, op, arg) ==
    /\ tpc[t] = "idle"
    /\ GslLock(t)
    /\ tpc' = [tpc EXCEPT ![t] = op]
    /\ tloc' = [tloc EXCEPT ![t] = [arg |-> arg, seen |-> None, ret |-> NoRet]]

\* An operation of thread t returns: it gives the lock back.
End(t, ret) ==
    /\ GslUnlock(t)
    /\ tpc' = [tpc EXCEPT ![t] = "idle"]
    /\ tloc' = [tloc EXCEPT ![t] = [arg |-> None, seen |-> None, ret |-> ret]]

SlotValue(slot) == IF slot = "dir" THEN cwd ELSE env[slot]

LiveOn(slot) == SelectSeq(guards, LAMBDA g : g.slot = slot)

IsTop(g) == LET live == LiveOn(g.slot) IN live # <<>> /\ live[Len(live)].id = g.id

Without(g) == SelectSeq(guards, LAMBDA h : h.id # g.id)

\* current_directory().
CwdBegin(t) ==
    /\ Begin(t, "cwd", None)
    /\ UNCHANGED <<cwd, env, guards, lifo, nAcq, ambient0, notAmb>>

CwdEnd(t) ==
    /\ tpc[t] = "cwd"
    /\ End(t, [op |-> "cwd", dir |-> cwd])
    /\ UNCHANGED <<cwd, env, guards, lifo, nAcq, ambient0, notAmb>>

\* acquire_directory(path): the prior directory is read, then the directory
\* is switched to the resolved target if that is an existing directory.
PushdBegin(t, path) ==
    /\ nAcq < MaxAcq
    /\ Begin(t, "pushd_read", path)
    /\ nAcq' = nAcq + 1
    /\ UNCHANGED <<cwd, env, guards, lifo, ambient0, notAmb>>

PushdRead(t) ==
    /\ tpc[t] = "pushd_read"
    /\ tpc' = [tpc EXCEPT ![t] = "pushd_set"]
    /\ tloc' = [tloc EXCEPT ![t].seen = cwd]
    /\ UNCHANGED <<cwd, env, lock, guards, lifo, nAcq, ambient0, notAmb>>

PushdSet(t) ==
    /\ tpc[t] = "pushd_set"
    /\ LET target == Join(cwd, tloc[t].arg)
       IN  IF target \in Dirs
           THEN /\ cwd' = target
                /\ guards' = Append(guards, [id |-> nAcq, owner |-> t, slot |-> "dir",
                                             prev |-> tloc[t].seen, now |-> target])
                /\ End(t, [op |-> "pushd", ok |-> TRUE])
           ELSE /\ UNCHANGED <<cwd, guards>>
                /\ End(t, [op |-> "pushd", ok |-> FALSE])
    /\ UNCHANGED <<env, lifo, nAcq, ambient0, notAmb>>

\* release_directory(Guard): restores the directory recorded in the guard.
RestoreDir(g) == cwd' = g.prev

PopdBegin(t, g) ==
    /\ g.owner = t /\ g.slot = "dir"
    /\ Begin(t, "popd", g)
    /\ UNCHANGED <<cwd, env, guards, lifo, nAcq, ambient0, notAmb>>

PopdEnd(t) ==
    /\ tpc[t] = "popd"
    /\ RestoreDir(tloc[t].arg)
    /\ lifo' = (lifo /\ IsTop(tloc[t].arg))
    /\ guards' = Without(tloc[t].arg)
    /\ End(t, [op |-> "release", depth |-> Len(LiveOn("dir"))])
    /\ UNCHANGED <<env, nAcq, ambient0, notAmb>>

\* acquire_env(name, value): records whether the name was absent or present
\* with some value, then sets it.
PushenvBegin(t, name, value) ==
    /\ nAcq < MaxAcq
    /\ Begin(t, "pushenv_read", <<name, value>>)
    /\ nAcq' = nAcq + 1
    /\ UNCHANGED <<cwd, env, guards, lifo, ambient0, notAmb>>

PushenvRead(t) ==
    /\ tpc[t] = "pushenv_read"
    /\ tpc' = [tpc EXCEPT ![t] = "pushenv_set"]
    /\ tloc' = [tloc EXCEPT ![t].seen = env[tloc[t].arg[1]]]
    /\ UNCHANGED <<cwd, env, lock, guards, lifo, nAcq, ambient0, notAmb>>

PushenvSet(t) ==
    /\ tpc[t] = "pushenv_set"
    /\ LET name == tloc[t].arg[1]
           value == tloc[t].arg[2]
       IN  /\ env' = [env EXCEPT ![name] = value]
           /\ guards' = Append(guards, [id |-> nAcq, owner |-> t, slot |-> name,
                                        prev |-> tloc[t].seen, now |-> value])
    /\ End(t, [op |-> "pushenv", ok |-> TRUE])
    /\ UNCHANGED <<cwd, lifo, nAcq, ambient0, notAmb>>

\* A slip: release always removes the variable.
RestoreEnvRemove(g) == env' = [env EXCEPT ![g.slot] = Absent]

\* release_env(Guard): restores exactly the previous presence or value.
RestoreEnv(g) == env' = [env EXCEPT ![g.slot] = g.prev]

PopenvBegin(t, g) ==
    /\ g.owner = t /\ g.slot \in EnvNames
    /\ Begin(t, "popenv", g)
    /\ UNCHANGED <<cwd, env, guards, lifo, nAcq, ambient0, notAmb>>

PopenvEnd(t) ==
    /\ tpc[t] = "popenv"
    /\ RestoreEnv(tloc[t].arg)
    /\ lifo' = (lifo /\ IsTop(tloc[t].arg))
    /\ guards' = Without(tloc[t].arg)
    /\ End(t, [op |-> "release", depth |-> Len(LiveOn(tloc[t].arg.slot))])
    /\ UNCHANGED <<cwd, nAcq, ambient0, notAmb>>

\* read_file(path) with a relative path: the path is resolved against the
\* current directory and the file opened, both under the lock.
ReadFileBegin(t, path) ==
    /\ Begin(t, "read_file_resolve", path)
    /\ UNCHANGED <<cwd, env, guards, lifo, nAcq, ambient0, notAmb>>

ReadFileResolve(t) ==
    /\ tpc[t] = "read_file_resolve"
    /\ tpc' = [tpc EXCEPT ![t] = "read_file_open"]
    /\ tloc' = [tloc EXCEPT ![t].seen = cwd]
    /\ UNCHANGED <<cwd, env, lock, guards, lifo, nAcq, ambient0, notAmb>>

ReadFileOpen(t) ==
    /\ tpc[t] = "read_file_open"
    /\ End(t, [op |-> "read_file", ok |-> Join(cwd, tloc[t].arg) \in Files,
               from |-> tloc[t].seen, at |-> cwd])
    /\ UNCHANGED <<cwd, env, guards, lifo, nAcq, ambient0, notAmb>>

\* The store of a process that starts in `dir` with environment `e`.
AmbientStart(dir, e) ==
    /\ cwd = dir
    /\ env = e
    /\ lock = None
    /\ guards = <<>>
    /\ tpc = [t \in Threads |-> "idle"]
    /\ tloc = [t \in Threads |-> IdleLoc]
    /\ lifo = TRUE
    /\ nAcq = 0
    /\ ambient0 = [dir |-> dir, env |-> e]

\* ------------------------------------------------------------- execution

ProgTrue == <<"t", "r", "u", "e">>
ProgFalse == <<"f", "a", "l", "s", "e">>
ProgSh == <<"s", "h">>
ProgNope == <<"n", "o", "p", "e">>
Pipe == <<"|">>

\* The programs the operating system can spawn.
Installed == {Echo, ProgTrue, ProgFalse, ProgSh}

\* How a program may end: its exit status and what it wrote to stdout.
Behaviours(prog) ==
    CASE prog = ProgTrue -> {[status |-> 0, out |-> <<>>]}
      [] prog = ProgFalse -> {[status |-> 1, out |-> <<>>]}
      [] prog = Echo -> {[status |-> 0, out |-> <<"h", LF>>]}
      [] OTHER -> [status : {0, 1}, out : {<<>>, <<"h">>, <<"h", LF, LF>>}]

ExecCmds ==
    { <<ProgTrue>>, <<ProgFalse>>, <<ProgNope>>, <<Echo, <<"h">>>>,
      <<ProgSh, <<"a", SP, "b">>>>, <<Echo, Pipe, ProgSh>>, <<ProgSh, Pipe>>,
      <<ProgNope, Pipe, ProgTrue>>, <<Echo, <<BADBYTE>>>> }

NoResult == [kind |-> "None", val |-> <<>>, status |-> 0]
Ok(val) == [kind |-> "Ok", val |-> val, status |-> 0]
Err(kind, status) == [kind |-> kind, val |-> <<>>, status |-> status]
Panic(at) == [kind |-> "Panic", val |-> at, status |-> 0]

\* The calling thread has called `op` on the command.
Called(op) ==
    /\ rop = op
    /\ rpc = "start"
    /\ segs = <<>>
    /\ mstdin = 0
    /\ children = <<>>
    /\ console = <<>>
    /\ result = NoResult

\* OsStr::to_str: None when the token is not valid Unicode.
IsUtf8(tok) == \A i \in 1..Len(tok) : tok[i] # BADBYTE

RECURSIVE SplitOn(_, _, _)
\* slice::split(|c| c == &"|"): the runs between separators, empty runs kept.
SplitOn(list, sep, cur) ==
    IF list = <<>> THEN <<cur>>
    ELSE IF Head(list) = sep THEN <<cur>> \o SplitOn(Tail(list), sep, <<>>)
    ELSE SplitOn(Tail(list), sep, Append(cur, Head(list)))

\* A process std::process::Command::spawn created: it takes the process's
\* current directory as it is at that instant.
Child(argv, in, out) ==
    [argv |-> argv, stdin |-> in, stdout |-> out, state |-> "running",
     status |-> -1, out |-> <<>>, cwd |-> cwd, lockedBy |-> lock]

\* Cmd::read, lines 313-317, entering Cmd::mrun, lines 371-374 and 410.
MrunStart ==
    /\ rpc = "start" /\ rop = "read"
    /\ IF \A i \in 1..Len(args) : IsUtf8(args[i])
       THEN /\ segs' = SplitOn(args, Pipe, <<>>)
            /\ rpc' = "mrun_loop"
            /\ UNCHANGED result
       ELSE /\ result' = Panic("to_str")
            /\ rpc' = "done"
            /\ UNCHANGED segs
    /\ mstdin' = 0
    /\ UNCHANGED <<rop, children, console, cmdVars, ambVars>>

\* One iteration of the loop of mrun, lines 411-418, with the call of
\* `runit`, lines 376-408.
MrunSpawn ==
    /\ rpc = "mrun_loop" /\ segs # <<>>
    /\ LET c == Head(segs)
           stdout == IF Len(segs) > 1 THEN "piped" ELSE "inherit"
           stdin == IF mstdin # 0 /\ children[mstdin].stdout = "piped"
                    THEN "child_pipe" ELSE "inherit"
       IN  IF c # <<>> /\ c[1] \in Installed
           THEN /\ children' = Append(children, Child(c, stdin, stdout))
                /\ mstdin' = Len(children) + 1
           ELSE /\ mstdin' = 0
                /\ UNCHANGED children
    /\ segs' = Tail(segs)
    /\ UNCHANGED <<rop, rpc, console, result, cmdVars, ambVars>>

\* mrun, lines 420 and 426-428: no last child; Cmd::read returns its Ok.
MrunEmpty ==
    /\ rpc = "mrun_loop" /\ segs = <<>> /\ mstdin = 0
    /\ result' = Ok(<<>>)
    /\ rpc' = "done"
    /\ UNCHANGED <<rop, segs, mstdin, children, console, cmdVars, ambVars>>

\* mrun, lines 420-425: the last child is waited for, then its `stdout`
\* handle, which only a piped stdout has, is unwrapped and read into an
\* empty buffer.
MrunWait ==
    /\ rpc = "mrun_loop" /\ segs = <<>> /\ mstdin # 0
    /\ children[mstdin].state = "exited"
    /\ result' = IF children[mstdin].stdout = "piped" THEN Ok(<<>>)
                 ELSE Panic("stdout")
    /\ rpc' = "done"
    /\ UNCHANGED <<rop, segs, mstdin, children, console, cmdVars, ambVars>>

\* println!("$ {}", self) of Cmd::run, line 353.
EchoLine == [by |-> "parent", text |-> <<"$", SP>> \o Display(args) \o <<LF>>]

\* A slip: the echo is left out.
RunEchoSkipped ==
    /\ rpc = "start" /\ rop = "run"
    /\ rpc' = "run_spawn"
    /\ UNCHANGED <<rop, segs, mstdin, children, console, result, cmdVars, ambVars>>

\* Cmd::run, line 353.
RunEcho ==
    /\ rpc = "start" /\ rop = "run"
    /\ console' = Append(console, EchoLine)
    /\ rpc' = "run_spawn"
    /\ UNCHANGED <<rop, segs, mstdin, children, result, cmdVars, ambVars>>

\* Cmd::run, line 354 and 357: Cmd::command, lines 361-365, then the spawn
\* inside Command::status.
RunSpawn ==
    /\ rpc = "run_spawn"
    /\ IF args = <<>>
       THEN /\ result' = Panic("args[0]")
            /\ rpc' = "done"
            /\ UNCHANGED children
       ELSE IF args[1] \in Installed
       THEN /\ children' = Append(children, Child(args, "inherit", "inherit"))
            /\ rpc' = "run_wait"
            /\ UNCHANGED result
       ELSE /\ result' = Err("Io", 0)
            /\ rpc' = "done"
            /\ UNCHANGED children
    /\ UNCHANGED <<rop, segs, mstdin, console, cmdVars, ambVars>>

\* Cmd::run, lines 354-356: Command::status returns when the child has
\* exited.
RunWait ==
    /\ rpc = "run_wait"
    /\ LET child == children[Len(children)]
       IN  /\ child.state = "exited"
           /\ result' = IF child.status = 0 THEN Ok(<<>>)
                        ELSE Err("NonZeroStatus", child.status)
    /\ rpc' = "done"
    /\ UNCHANGED <<rop, segs, mstdin, children, console, cmdVars, ambVars>>

\* A child runs to its end; what it writes to an inherited stdout appears
\* on the process's standard output.
ChildExit(i) ==
    /\ children[i].state = "running"
    /\ \E b \in Behaviours(children[i].argv[1]) :
        /\ children' = [children EXCEPT ![i].state = "exited",
                                        ![i].status = b.status,
                                        ![i].out = b.out]
        /\ console' = IF children[i].stdout = "inherit" /\ b.out # <<>>
                      THEN Append(console, [by |-> "child", text |-> b.out])
                      ELSE console
    /\ UNCHANGED <<rop, rpc, segs, mstdin, result, cmdVars, ambVars>>

\* ------------------------------------------------------------ properties

\* Cmd::read, lines 323-325 (not reached, see C1): one final newline is
\* popped.
StripFinalNewline(s) ==
    IF s # <<>> /\ s[Len(s)] = LF THEN SubSeq(s, 1, Len(s) - 1) ELSE s

ReadDone == rop = "read" /\ rpc = "done"

LastChild == children[Len(children)]

\* C1: when the child of a command exits with success, Cmd::read returns Ok
\* with the child's stdout, one final newline removed if there is one.
C1_ReadReturnsStdout ==
    (ReadDone /\ children # <<>> /\ LastChild.state = "exited" /\ LastChild.status = 0)
        => result = Ok(StripFinalNewline(LastChild.out))

\* C2: when the child exits with a non-success status, Cmd::read returns an
\* Err of kind NonZeroStatus carrying that status; it neither returns Ok nor
\* panics.
C2_NonZeroExitIsErr ==
    (ReadDone /\ children # <<>> /\ LastChild.state = "exited" /\ LastChild.status # 0)
        => result = Err("NonZeroStatus", LastChild.status)

\* C3: with stdin bytes present, Cmd::read gives the child a stdin pipe that
\* the parent writes while the child's output is drained, and the call
\* returns once the child has exited.
C3_StdinFedAndReturns ==
    (ReadDone /\ stdin_contents # NoneOpt /\ children # <<>>
        /\ LastChild.state = "exited")
        => /\ children[1].stdin = "parent_pipe"
           /\ result.kind \in {"Ok", "NonZeroStatus"}

\* C4: a child is spawned only while the spawning thread holds the global
\* shell lock, so no pushd step of another thread falls between reading the
\* directory and the spawn.
C4_LockHeldAtSpawn ==
    \A i \in 1..Len(children) : children[i].lockedBy = "main"

\* C7: when the operating system cannot spawn the program, Cmd::read
\* returns an Err of kind Io, never an Ok.
C7_SpawnFailureIsErr ==
    (ReadDone /\ args[1] \notin Installed /\ \A i \in 1..Len(args) : args[i] # Pipe)
        => result.kind = "Io"

ParentLines == SelectSeq(console, LAMBDA w : w.by = "parent")

\* C9: Cmd::run writes "$ " and the rendered command to standard output
\* exactly once and before it spawns the child, whether the child succeeds,
\* fails or cannot be spawned; it returns only once the child has exited,
\* and Ok only for a success status.
C9_RunEchoesOnceBeforeSpawn ==
    rop = "run" =>
        /\ (rpc # "start" \/ children # <<>>) =>
              /\ ParentLines = <<[by |-> "parent",
                                  text |-> <<"$", SP>> \o Display(args) \o <<LF>>]>>
              /\ console[1].by = "parent"
        /\ rpc = "done" => result.kind \in {"Ok", "NonZeroStatus", "Io"}
        /\ result.kind = "Io" => children = <<>>
        /\ result.kind \in {"Ok", "NonZeroStatus"} =>
              /\ children # <<>> /\ LastChild.state = "exited"
              /\ (result.kind = "Ok") = (LastChild.status = 0)
              /\ result.status = (IF result.kind = "Ok" THEN 0 ELSE LastChild.status)

C9_RunFinished ==
    /\ rop = "run" /\ rpc = "done" /\ result.kind = "NonZeroStatus"
    /\ Len(console) = 2 /\ console[2].by = "child"

\* The live guards of a slot form a chain from the initial value to the
\* current one: each records as `prev` what the one below it set.
ChainOK(slot, initial) ==
    LET live == LiveOn(slot)
    IN  /\ SlotValue(slot) = IF live = <<>> THEN initial ELSE live[Len(live)].now
        /\ live # <<>> => live[1].prev = initial
        /\ \A i \in 1..(Len(live) - 1) : live[i + 1].prev = live[i].now

\* C5: while guards are released in LIFO order per slot, every release puts
\* the slot back to the value it had before the matching acquire; with no
\* guard left the directory and every variable are as the process started.
C5_ReleaseRestores ==
    lifo => /\ ChainOK("dir", ambient0.dir)
            /\ \A n \in EnvNames : ChainOK(n, ambient0.env[n])

C5_NestedReleased ==
    /\ lifo /\ guards = <<>> /\ ambient0.env["MY_VAR"] = "0"
    /\ tloc["t1"].ret.op = "release" /\ tloc["t1"].ret.depth = 2
    /\ tloc["t2"].ret.op = "release" /\ tloc["t2"].ret.depth = 1

Inside(t) == tpc[t] # "idle"

\* C6: the store's operations exclude one another under the one lock: at
\* most one thread is inside an operation, it is the lock's holder, and the
\* directory or variable it read at its start is still the current one, so
\* a relative read sees the directory before or after a pushd, never a
\* change in between.
C6_MutualExclusion ==
    /\ Cardinality({t \in Threads : Inside(t)}) <= 1
    /\ \A t \in Threads :
        /\ Inside(t) => lock = t
        /\ tpc[t] \in {"pushd_set", "read_file_open"} => tloc[t].seen = cwd
        /\ tpc[t] = "pushenv_set" => tloc[t].seen = env[tloc[t].arg[1]]
        /\ tloc[t].ret.op = "read_file" =>
              /\ tloc[t].ret.from = tloc[t].ret.at
              /\ tloc[t].ret.at \in Dirs

C6_ReadAfterPushd ==
    /\ tloc["t1"].ret.op = "pushd" /\ tloc["t1"].ret.ok
    /\ tloc["t2"].ret.op = "read_file" /\ tloc["t2"].ret.at = <<"src">>
    /\ ~tloc["t2"].ret.ok

RECURSIVE JoinWith(_, _)
\* The texts of `pieces` in order, `sep` between neighbours.
JoinWith(pieces, sep) ==
    IF Len(pieces) <= 1 THEN (IF pieces = <<>> THEN <<>> ELSE pieces[1])
    ELSE pieces[1] \o sep \o JoinWith(Tail(pieces), sep)

HasAsciiWs(tok) == \E i \in 1..Len(tok) : tok[i] \in {SP, TAB, LF, FF, CR}

Quoted(text) == <<DQ>> \o EscapeDefault(text) \o <<DQ>>

\* C8 as stated: arguments joined by one space, an argument with ASCII
\* whitespace quoted and escaped, every other argument verbatim; a second
\* rendering gives the same text.
C8_RenderVerbatim ==
    \A k \in 1..Len(rendered) :
        rendered[k] = JoinWith([i \in 1..Len(args) |->
                          IF HasAsciiWs(args[i]) THEN Quoted(ToStringLossy(args[i]))
                          ELSE args[i]], <<SP>>)

\* C8 as amended: every other argument is emitted as its lossy text: itself
\* when it is valid Unicode, each invalid byte replaced by U+FFFD otherwise.
C8_RenderLossy ==
    \A k \in 1..Len(rendered) :
        /\ rendered[k] = JoinWith([i \in 1..Len(args) |->
                          IF HasAsciiWs(args[i]) THEN Quoted(ToStringLossy(args[i]))
                          ELSE IF IsUtf8(args[i]) THEN args[i]
                          ELSE ToStringLossy(args[i])], <<SP>>)
        /\ rendered[k] = rendered[1]

C8_GreetingRendered ==
    /\ args = GreetingCmd
    /\ Len(rendered) = 2
    /\ rendered[2] = <<"e", "c", "h", "o", SP, DQ, "G", "u", "t", "e", "n", SP, "T",
                       "a", "g", DQ, SP, "S", "p", "i", "c", "a", SP, "B", "o", "a",
                       "r", "s", "t", SP, "G", "e", "o", "r", "g", "i", "n", "a">>

IsPrefix(p, q) == Len(p) <= Len(q) /\ SubSeq(q, 1, Len(p)) = p

\* What one builder call may do to the argument list.
BuilderStep ==
    /\ Len(args') >= Len(args)
    /\ \A i \in 1..(Len(args) - 1) : args'[i] = args[i]
    /\ IsPrefix(args[Len(args)], args'[Len(args)])
    /\ lastCall' = "arg" => /\ Len(args') = Len(args) + 1
                            /\ args'[Len(args)] = args[Len(args)]
    /\ lastCall' = "args" => args'[Len(args)] = args[Len(args)]
    /\ lastCall' = "__extend_arg" => Len(args') = Len(args)
    /\ lastCall' = "stdin" => args' = args /\ stdin_contents' # NoneOpt
    /\ lastCall' # "stdin" => stdin_contents' = stdin_contents

\* C10: after any builder calls the argument list is non-empty and element 0
\* begins with the program given to Cmd::new; arg appends exactly one
\* element, __extend_arg only lengthens the last element, and no call
\* removes, reorders or changes an earlier element.
C10_ArgumentList ==
    /\ [](args # <<>> /\ IsPrefix(program, args[1]) /\ lastCall # "panic")
    /\ [][BuilderStep]_vars

C10_Extended ==
    /\ lastCall = "__extend_arg"
    /\ args = <<<<"a">>, <<"a">>, <<"a", "-", "v">>>>
    /\ stdin_contents = Some(<<"x">>)

\* -------------------------------------------------------- specifications

NoEnv == [n \in EnvNames |-> Absent]

\* No execution is under way.
ExecIdle ==
    /\ rop = "none"
    /\ rpc = "idle"
    /\ segs = <<>>
    /\ mstdin = 0
    /\ children = <<>>
    /\ console = <<>>
    /\ result = NoResult

InitAmbient ==
    \E e \in [EnvNames -> {Absent, "0"}] :
        AmbientStart(Root, e) /\ New(Echo) /\ ExecIdle

NextAmbient ==
    \E t \in Threads :
        \/ CwdBegin(t)
        \/ CwdEnd(t)
        \/ \E path \in PushdPaths : PushdBegin(t, path)
        \/ PushdRead(t)
        \/ PushdSet(t)
        \/ \E i \in 1..Len(guards) : PopdBegin(t, guards[i])
        \/ PopdEnd(t)
        \/ \E name \in EnvNames, value \in EnvValues : PushenvBegin(t, name, value)
        \/ PushenvRead(t)
        \/ PushenvSet(t)
        \/ \E i \in 1..Len(guards) : PopenvBegin(t, guards[i])
        \/ PopenvEnd(t)
        \/ \E path \in ReadPaths : ReadFileBegin(t, path)
        \/ ReadFileResolve(t)
        \/ ReadFileOpen(t)

SpecAmbient == InitAmbient /\ [][NextAmbient]_vars

InitBuilder ==
    \E p \in BuilderTokens : New(p) /\ AmbientStart(Root, NoEnv) /\ ExecIdle

NextBuilder ==
    \/ \E a \in BuilderTokens : Arg(a)
    \/ \E items \in BuilderSplats : Args(items)
    \/ \E a \in BuilderTokens : ExtendArg(a)
    \/ \E b \in StdinBuffers : Stdin(b)

SpecBuilder == InitBuilder /\ [][NextBuilder]_vars

InitDisplay ==
    \E a \in DisplayInputs : Built(a, NoneOpt) /\ AmbientStart(Root, NoEnv) /\ ExecIdle

NextDisplay == to_string

SpecDisplay == InitDisplay /\ [][NextDisplay]_vars

InitExec ==
    \E a \in ExecCmds, b \in {NoneOpt} \cup {Some(x) : x \in StdinBuffers}, op \in {"read", "run"} :
        /\ Built(a, b)
        /\ AmbientStart(Root, NoEnv)
        /\ Called(op)

NextExec ==
    \/ MrunStart
    \/ MrunSpawn
    \/ MrunEmpty
    \/ MrunWait
    \/ RunEcho
    \/ RunSpawn
    \/ RunWait
    \/ \E i \in 1..Len(children) : ChildExit(i)
    \/ \E path \in PushdPaths : PushdBegin("t1", path)
    \/ PushdRead("t1")
    \/ PushdSet("t1")
    \/ \E i \in 1..Len(guards) : PopdBegin("t1", guards[i])
    \/ PopdEnd("t1")

Spec == InitExec /\ [][NextExec]_vars

====
